---- MODULE Spec2Model ----
(***************************************************************************)
(* Model of pibooth/pictures/__init__.py: the orientation resolver         *)
(* (get_best_orientation), the canvas sizing and backend selection         *)
(* (get_picture_maker) and the step sequence of the image loader           *)
(* (get_pygame_image).  The module is a stateless library: a state of the  *)
(* model is one call frame (the function called, its arguments, what it    *)
(* has done so far and how it ended) plus the process-wide maker.cv2.      *)
(***************************************************************************)
EXTENDS Integers, Sequences, FiniteSets

VARIABLES cv2,          \* maker.cv2 is truthy (the OpenCV backend is importable)
          op,           \* the function of this module being called
          pc,           \* position in the call: "start", a step name, "returned", "raised"
          captures,     \* argument: the captures, each one its size <<width, height>>
          orientation,  \* argument of get_picture_maker
          paper_format, \* argument of get_picture_maker
          force_pil,    \* argument of get_picture_maker
          resolved,     \* the orientation returned by / assigned from get_best_orientation
          size,         \* get_picture_maker's local `size`, <<>> while not computed
          calls,        \* the functions this call has called, in order
          built,        \* the picture makers constructed, with their arguments
          error,        \* the exception that ended the call, "none" otherwise
          img,          \* arguments of get_pygame_image
          steps         \* the image operations get_pygame_image has applied, in order

vars == <<cv2, op, pc, captures, orientation, paper_format, force_pil,
          resolved, size, calls, built, error, img, steps>>

-----------------------------------------------------------------------------
(* Constants of the source *)

AUTO == "auto"
PORTRAIT == "portrait"
LANDSCAPE == "landscape"

\* "Consider a resolution of 600 dpi"
DPI == 600

\* default of the `color` parameter: the value that disables recoloring
WHITE == <<255, 255, 255>>

-----------------------------------------------------------------------------
(* Bounds and input domains *)

\* longest capture list tried (the code accepts 1..4 and must reject the rest)
MaxCaptures == 5

\* capture sizes: portrait, landscape and square
CaptureSizes == {<<1, 2>>, <<2, 1>>, <<2, 2>>}

CaptureLists == UNION {[1..n -> CaptureSizes] : n \in 0..MaxCaptures}

\* one orientation outside the three the code knows
Orientations == {AUTO, PORTRAIT, LANDSCAPE, "diagonal"}

\* paper dimensions in inches, with a zero and a negative one
PaperDims == {-1, 0, 4, 6}

PaperFormats == {<<a, b>> : a \in PaperDims, b \in PaperDims}

\* target sizes of get_pygame_image; <<>> stands for None (falsy)
TargetSizes == {<<>>, <<4, 2>>, <<0, 0>>}

\* what is at get_filename(name): a 4-band image, a 3-band image, a file that
\* is no image, or nothing
Assets == {"rgba", "rgb", "corrupt", "missing"}

Colors == {WHITE, <<255, 0, 0>>}

Angles == {0, 90}

ImageArgs == [size : TargetSizes, asset : Assets, color : Colors,
              crop : BOOLEAN, hflip : BOOLEAN, vflip : BOOLEAN, angle : Angles]

\* the defaults of get_pygame_image's parameters, used when another function is called
NoImage == [size |-> <<>>, asset |-> "missing", color |-> WHITE,
            crop |-> FALSE, hflip |-> FALSE, vflip |-> FALSE, angle |-> 0]

-----------------------------------------------------------------------------
(* get_best_orientation *)

\* mutant: a square capture counted as portrait
is_portrait_square(capture) == capture[1] <= capture[2]

\* is_portrait = captures[0].size[0] < captures[0].size[1]
is_portrait(capture) == capture[1] < capture[2]

\* The first statement indexes captures[0] before the length is looked at:
\* an empty list ends in IndexError, not in the ValueError of the else branch.
get_best_orientation(caps) ==
    IF Len(caps) = 0
    THEN [error |-> "IndexError", value |-> "none"]
    ELSE IF Len(caps) = 1 \/ Len(caps) = 4
    THEN [error |-> "none",
          value |-> IF is_portrait(caps[1]) THEN PORTRAIT ELSE LANDSCAPE]
    ELSE IF Len(caps) = 2 \/ Len(caps) = 3
    THEN [error |-> "none",
          value |-> IF is_portrait(caps[1]) THEN LANDSCAPE ELSE PORTRAIT]
    ELSE [error |-> "ValueError", value |-> "none"]

-----------------------------------------------------------------------------
(* get_picture_maker *)

\* mutant: the assertion dropped
known_orientation_any(o) == TRUE

\* assert orientation in (AUTO, PORTRAIT, LANDSCAPE)
known_orientation(o) == o \in {AUTO, PORTRAIT, LANDSCAPE}

\* mutant: the resolver called whatever the orientation argument is
needs_resolution_always(o) == TRUE

\* if orientation == AUTO: orientation = get_best_orientation(captures)
needs_resolution(o) == o = AUTO

\* mutant: the format used as written
portrait_format_as_given(pf) == pf

\* mutant: the comparison inverted, so the format is put in landscape
portrait_format_inverted(pf) == IF pf[1] < pf[2] THEN <<pf[2], pf[1]>> ELSE pf

\* "Ensure paper format is given in portrait"
portrait_format(pf) == IF pf[1] > pf[2] THEN <<pf[2], pf[1]>> ELSE pf

\* mutant: the LANDSCAPE swap forgotten
oriented_size_no_swap(pf, o) == <<pf[1] * DPI, pf[2] * DPI>>

\* size = (paper_format[0] * 600, paper_format[1] * 600), swapped for LANDSCAPE
oriented_size(pf, o) ==
    LET s == <<pf[1] * DPI, pf[2] * DPI>>
    IN  IF o = LANDSCAPE THEN <<s[2], s[1]>> ELSE s

canvas_size(pf, o) == oriented_size(portrait_format(pf), o)

\* mutant: force_pil ignored
maker_class_no_force(available, fp) ==
    IF ~available THEN "PilPictureMaker" ELSE "OpenCvPictureMaker"

\* if not maker.cv2 or force_pil: PilPictureMaker, else OpenCvPictureMaker
maker_class(available, fp) ==
    IF ~available \/ fp THEN "PilPictureMaker" ELSE "OpenCvPictureMaker"

\* The whole function: how it ends, and what it called and constructed on the way.
get_picture_maker(caps, o, pf, fp) ==
    IF ~known_orientation(o)
    THEN [error |-> "AssertionError", resolved |-> "none", size |-> <<>>,
          calls |-> <<>>, built |-> <<>>]
    ELSE
    LET best == IF needs_resolution(o) THEN get_best_orientation(caps)
                ELSE [error |-> "none", value |-> o]
        called == IF needs_resolution(o) THEN <<"get_best_orientation">> ELSE <<>>
    IN  IF best.error # "none"
        THEN [error |-> best.error, resolved |-> "none", size |-> <<>>,
              calls |-> called, built |-> <<>>]
        ELSE LET s == canvas_size(pf, best.value)
                 class == maker_class(cv2, fp)
             IN  [error |-> "none", resolved |-> best.value, size |-> s,
                  calls |-> Append(called, class),
                  built |-> <<[class |-> class, width |-> s[1], height |-> s[2],
                               captures |-> caps]>>]

-----------------------------------------------------------------------------
(* Initial states: one pending call with its arguments *)

InitOrientation ==
    /\ op = "get_best_orientation"
    /\ captures \in CaptureLists
    /\ orientation = AUTO /\ paper_format = <<4, 6>> /\ force_pil = FALSE
    /\ img = NoImage

InitMaker ==
    /\ op = "get_picture_maker"
    /\ captures \in CaptureLists
    /\ orientation \in Orientations
    /\ paper_format \in PaperFormats
    /\ force_pil \in BOOLEAN
    /\ img = NoImage

InitImage ==
    /\ op = "get_pygame_image"
    /\ captures = <<>>
    /\ orientation = AUTO /\ paper_format = <<4, 6>> /\ force_pil = FALSE
    /\ img \in ImageArgs

Init ==
    /\ cv2 \in BOOLEAN
    /\ pc = "start"
    /\ resolved = "none" /\ size = <<>> /\ calls = <<>> /\ built = <<>>
    /\ error = "none" /\ steps = <<>>
    /\ (InitOrientation \/ InitMaker \/ InitImage)

-----------------------------------------------------------------------------
(* Actions *)

args == <<cv2, op, captures, orientation, paper_format, force_pil, img>>

CallGetBestOrientation ==
    /\ op = "get_best_orientation" /\ pc = "start"
    /\ LET r == get_best_orientation(captures)
       IN  /\ resolved' = r.value
           /\ error' = r.error
           /\ pc' = IF r.error = "none" THEN "returned" ELSE "raised"
    /\ calls' = <<"get_best_orientation">>
    /\ UNCHANGED <<args, size, built, steps>>

CallGetPictureMaker ==
    /\ op = "get_picture_maker" /\ pc = "start"
    /\ LET r == get_picture_maker(captures, orientation, paper_format, force_pil)
       IN  /\ resolved' = r.resolved
           /\ size' = r.size
           /\ calls' = r.calls
           /\ built' = r.built
           /\ error' = r.error
           /\ pc' = IF r.error = "none" THEN "returned" ELSE "raised"
    /\ UNCHANGED <<args, steps>>

\* get_pygame_image, one statement at a time
Raise(e) == error' = e /\ pc' = "raised" /\ UNCHANGED steps

Step(name, next) == steps' = Append(steps, name) /\ pc' = next /\ UNCHANGED error

Skip(next) == pc' = next /\ UNCHANGED <<steps, error>>

\* if not size: pygame.image.load(path).convert()
\* else: Image.open(path) if osp.isfile(path) else Image.new('RGBA', size, ...)
Load ==
    /\ op = "get_pygame_image" /\ pc = "start"
    /\ IF img.size = <<>>
       THEN IF img.asset \in {"rgba", "rgb"} THEN Step("load", "flip")
            ELSE Raise("pygame.error")
       ELSE IF img.asset = "missing" THEN Step("new", "recolor")
            ELSE IF img.asset = "corrupt" THEN Raise("IOError")
            ELSE Step("open", "recolor")
    /\ UNCHANGED <<args, resolved, size, calls, built>>

\* mutant: recoloring applied whatever the color is
RecolorAlways ==
    /\ op = "get_pygame_image" /\ pc = "recolor"
    /\ IF img.asset = "rgb" THEN Raise("ValueError") ELSE Step("recolor", "crop")
    /\ UNCHANGED <<args, resolved, size, calls, built>>

\* if color != (255, 255, 255): set_picto_color(...), which unpacks four bands
Recolor ==
    /\ op = "get_pygame_image" /\ pc = "recolor"
    /\ IF img.color # WHITE
       THEN IF img.asset = "rgb" THEN Raise("ValueError")
            ELSE Step("recolor", "crop")
       ELSE Skip("crop")
    /\ UNCHANGED <<args, resolved, size, calls, built>>

\* if crop: pil_image.crop(...)
Crop ==
    /\ op = "get_pygame_image" /\ pc = "crop"
    /\ IF img.crop THEN Step("crop", "resize") ELSE Skip("resize")
    /\ UNCHANGED <<args, resolved, size, calls, built>>

\* pil_image.resize(...) and the conversion to a pygame surface.  The target size
\* is handed unchecked to the sizing helpers and to PIL; what they do with a zero
\* or negative dimension is theirs: they return or they raise their own exception.
Resize ==
    /\ op = "get_pygame_image" /\ pc = "resize"
    /\ \/ Step("resize", "flip")
       \/ /\ \E i \in 1..Len(img.size) : img.size[i] <= 0
          /\ Raise("LibraryError")
    /\ UNCHANGED <<args, resolved, size, calls, built>>

\* if hflip or vflip: pygame.transform.flip(...)
Flip ==
    /\ op = "get_pygame_image" /\ pc = "flip"
    /\ IF img.hflip \/ img.vflip THEN Step("flip", "rotate") ELSE Skip("rotate")
    /\ UNCHANGED <<args, resolved, size, calls, built>>

\* if angle != 0: pygame.transform.rotate(...); return image
Rotate ==
    /\ op = "get_pygame_image" /\ pc = "rotate"
    /\ IF img.angle # 0 THEN Step("rotate", "returned") ELSE Skip("returned")
    /\ UNCHANGED <<args, resolved, size, calls, built>>

Next ==
    \/ CallGetBestOrientation
    \/ CallGetPictureMaker
    \/ Load
    \/ Recolor
    \/ Crop
    \/ Resize
    \/ Flip
    \/ Rotate

Spec == Init /\ [][Next]_vars

-----------------------------------------------------------------------------
(* Properties *)

Min(a, b) == IF a <= b THEN a ELSE b
Max(a, b) == IF a >= b THEN a ELSE b

Finished == pc \in {"returned", "raised"}

PositiveFormat == paper_format[1] > 0 /\ paper_format[2] > 0

ValidCount == Len(captures) \in 1..4

\* C1: for a capture list of length 1 to 4, get_best_orientation returns PORTRAIT
\* iff the first capture has width < height (LANDSCAPE otherwise) when the length is
\* 1 or 4, and the opposite value when the length is 2 or 3; every list of the same
\* length with the same first capture gets the same answer.
C1_OrientationTable ==
    (op = "get_best_orientation" /\ pc # "start" /\ ValidCount) =>
        LET w == captures[1][1]
            h == captures[1][2]
            same == IF w < h THEN PORTRAIT ELSE LANDSCAPE
            opposite == IF w < h THEN LANDSCAPE ELSE PORTRAIT
        IN  /\ pc = "returned" /\ error = "none"
            /\ Len(captures) \in {1, 4} => resolved = same
            /\ Len(captures) \in {2, 3} => resolved = opposite
            /\ \A other \in CaptureLists :
                   (Len(other) = Len(captures) /\ other[1] = captures[1])
                       => get_best_orientation(other).value = resolved

\* a 3-capture strip whose first capture is portrait and whose others are not
C1_Witness ==
    /\ op = "get_best_orientation" /\ pc = "returned"
    /\ captures = <<<<1, 2>>, <<2, 1>>, <<2, 2>>>>
    /\ resolved = LANDSCAPE

\* C2: for every capture list whose length is outside 1..4 (0 and 5 included),
\* get_best_orientation raises the invalid-capture-count error (the ValueError of
\* its else branch) and returns no orientation.
C2_InvalidCountRaisesValueError ==
    (op = "get_best_orientation" /\ pc # "start" /\ ~ValidCount) =>
        (pc = "raised" /\ error = "ValueError" /\ resolved = "none")

\* C3: for a paper format (a, b) of positive dimensions, the size get_picture_maker
\* passes to the picture maker is (600*min(a,b), 600*max(a,b)) for PORTRAIT and
\* (600*max(a,b), 600*min(a,b)) for LANDSCAPE; (4,6) gives (2400,3600) and (3600,2400).
C3_CanvasSize ==
    (op = "get_picture_maker" /\ pc = "returned" /\ PositiveFormat) =>
        LET a == paper_format[1]
            b == paper_format[2]
            m == built[1]
        IN  /\ resolved \in {PORTRAIT, LANDSCAPE}
            /\ resolved = PORTRAIT =>
                   (m.width = 600 * Min(a, b) /\ m.height = 600 * Max(a, b))
            /\ resolved = LANDSCAPE =>
                   (m.width = 600 * Max(a, b) /\ m.height = 600 * Min(a, b))
            /\ (paper_format = <<4, 6>> /\ resolved = PORTRAIT) =>
                   (m.width = 2400 /\ m.height = 3600)
            /\ (paper_format = <<4, 6>> /\ resolved = LANDSCAPE) =>
                   (m.width = 3600 /\ m.height = 2400)

\* format written landscape-first, explicit LANDSCAPE
C3_Witness ==
    /\ op = "get_picture_maker" /\ pc = "returned"
    /\ paper_format = <<6, 4>> /\ orientation = LANDSCAPE
    /\ built[1].width = 3600 /\ built[1].height = 2400

\* C4: for positive dimensions (a, b), get_picture_maker called with paper format
\* (b, a) and otherwise the same arguments ends the same way and constructs the
\* picture maker with the same width and height as the call made with (a, b).
C4_FormatOrderInvariant ==
    (op = "get_picture_maker" /\ pc # "start" /\ PositiveFormat) =>
        LET swapped == get_picture_maker(captures, orientation,
                           <<paper_format[2], paper_format[1]>>, force_pil)
        IN  /\ swapped.error = error
            /\ swapped.size = size
            /\ swapped.built = built

\* an AUTO call with an unequal format written landscape-first
C4_Witness ==
    /\ op = "get_picture_maker" /\ pc = "returned"
    /\ paper_format = <<6, 4>> /\ orientation = AUTO
    /\ Len(captures) = 2 /\ captures[1] = <<2, 1>>
    /\ built[1].width = 2400 /\ built[1].height = 3600

\* C5: a call of get_picture_maker that returns has constructed exactly one picture
\* maker: OpenCvPictureMaker iff maker.cv2 is available and force_pil is not set,
\* PilPictureMaker otherwise, with the computed width and height and the captures in
\* their order; 4 square captures, AUTO and format (4,6) give 3600 x 2400.
C5_BackendChoice ==
    (op = "get_picture_maker" /\ pc = "returned") =>
        /\ Len(built) = 1
        /\ built[1].class = (IF cv2 /\ ~force_pil THEN "OpenCvPictureMaker"
                             ELSE "PilPictureMaker")
        /\ Len(SelectSeq(calls, LAMBDA c : c \in {"OpenCvPictureMaker", "PilPictureMaker"})) = 1
        /\ calls[Len(calls)] = built[1].class
        /\ <<built[1].width, built[1].height>> = size
        /\ Len(size) = 2
        /\ built[1].captures = captures
        /\ (/\ captures = <<<<2, 2>>, <<2, 2>>, <<2, 2>>, <<2, 2>>>>
            /\ orientation = AUTO /\ paper_format = <<4, 6>>)
               => (built[1].width = 3600 /\ built[1].height = 2400)

\* OpenCV is available but force_pil asks for PIL; the end-to-end scenario's inputs
C5_Witness ==
    /\ op = "get_picture_maker" /\ pc = "returned"
    /\ cv2 /\ force_pil
    /\ captures = <<<<2, 2>>, <<2, 2>>, <<2, 2>>, <<2, 2>>>>
    /\ orientation = AUTO /\ paper_format = <<4, 6>>
    /\ built = <<[class |-> "PilPictureMaker", width |-> 3600, height |-> 2400,
                  captures |-> captures]>>

\* C6: for an orientation outside {AUTO, PORTRAIT, LANDSCAPE}, get_picture_maker
\* fails on its assertion whatever the other arguments are: get_best_orientation
\* has not been called, no size has been computed, no picture maker constructed.
C6_OrientationCheckedFirst ==
    (op = "get_picture_maker" /\ pc # "start"
        /\ orientation \notin {AUTO, PORTRAIT, LANDSCAPE}) =>
        /\ pc = "raised" /\ error = "AssertionError"
        /\ calls = <<>>
        /\ resolved = "none"
        /\ size = <<>>
        /\ built = <<>>

\* an unknown orientation together with an empty capture list and a bad format
C6_Witness ==
    /\ op = "get_picture_maker" /\ pc = "raised"
    /\ orientation = "diagonal" /\ captures = <<>> /\ paper_format = <<0, -1>>
    /\ error = "AssertionError"

\* C7: get_picture_maker called with a paper format having a zero or negative
\* component, and get_pygame_image called with a target size having one, fail with
\* InvalidGeometryError and produce no picture maker and no surface.
C7_InvalidGeometryRejected ==
    /\ (/\ op = "get_picture_maker" /\ pc # "start" /\ ~PositiveFormat
        /\ orientation \in {PORTRAIT, LANDSCAPE} /\ ValidCount)
           => (pc = "raised" /\ error = "InvalidGeometryError" /\ built = <<>>)
    /\ (/\ op = "get_pygame_image" /\ Finished
        /\ \E i \in 1..Len(img.size) : img.size[i] <= 0)
           => (pc = "raised" /\ error = "InvalidGeometryError")

\* C8 as claimed: for a paper format of positive dimensions, square included, the
\* constructed canvas has width > height when the resolved orientation is LANDSCAPE
\* and width <= height when it is PORTRAIT.
C8_LandscapeStrictlyWider ==
    (op = "get_picture_maker" /\ pc = "returned" /\ PositiveFormat) =>
        /\ resolved = LANDSCAPE => built[1].width > built[1].height
        /\ resolved = PORTRAIT => built[1].width <= built[1].height

\* C8 amended: for a paper format of positive dimensions the constructed canvas has
\* width >= height when the resolved orientation is LANDSCAPE, strictly so when the
\* two dimensions differ and width = height for a square format; width <= height
\* when it is PORTRAIT.
C8_LandscapeNotNarrower ==
    (op = "get_picture_maker" /\ pc = "returned" /\ PositiveFormat) =>
        /\ resolved \in {PORTRAIT, LANDSCAPE}
        /\ resolved = LANDSCAPE =>
               /\ built[1].width >= built[1].height
               /\ paper_format[1] # paper_format[2] => built[1].width > built[1].height
               /\ paper_format[1] = paper_format[2] => built[1].width = built[1].height
        /\ resolved = PORTRAIT => built[1].width <= built[1].height

\* a square format resolved to LANDSCAPE from one square capture
C8_Witness ==
    /\ op = "get_picture_maker" /\ pc = "returned"
    /\ orientation = AUTO /\ captures = <<<<2, 2>>>> /\ resolved = LANDSCAPE
    /\ paper_format = <<4, 4>>
    /\ built[1].width = 2400 /\ built[1].height = 2400

IsPrefix(s, t) == Len(s) <= Len(t) /\ \A i \in 1..Len(s) : s[i] = t[i]

Opt(cond, name) == IF cond THEN <<name>> ELSE <<>>

\* the order of operations the claim describes, for the arguments of this call
ClaimedSteps ==
    (IF img.size # <<>>
     THEN <<IF img.asset = "missing" THEN "new" ELSE "open">>
          \o Opt(img.color # <<255, 255, 255>>, "recolor")
          \o Opt(img.crop, "crop")
          \o <<"resize">>
     ELSE <<"load">>)
    \o Opt(img.hflip \/ img.vflip, "flip")
    \o Opt(img.angle # 0, "rotate")

\* C9: at every point of a get_pygame_image call the operations applied so far are
\* an initial part of: load or placeholder, recolor (color not white), crop (crop
\* requested), resize (these three only with a target size), then flip (if
\* requested), then rotation (angle not 0); a call that returns has applied all.
C9_StepOrder ==
    (op = "get_pygame_image") =>
        /\ IsPrefix(steps, ClaimedSteps)
        /\ pc = "returned" => steps = ClaimedSteps
        /\ img.size = <<>> => \A i \in 1..Len(steps) :
                                  steps[i] \notin {"recolor", "crop", "resize"}

\* every optional step taken, on a decodable asset
C9_Witness ==
    /\ op = "get_pygame_image" /\ pc = "returned"
    /\ steps = <<"open", "recolor", "crop", "resize", "flip", "rotate">>

\* C10: with an explicit orientation (PORTRAIT or LANDSCAPE) get_picture_maker never
\* calls get_best_orientation, returns for every capture list (lengths 0 and 5
\* included) having constructed one picture maker with all the captures, and its
\* canvas is set by the paper format and the orientation alone; with AUTO it fails
\* exactly when the length is outside 1..4, and then constructs nothing.
C10_ExplicitOrientationSkipsResolver ==
    (op = "get_picture_maker" /\ pc # "start") =>
        /\ orientation \in {PORTRAIT, LANDSCAPE} =>
               /\ pc = "returned" /\ error = "none"
               /\ \A i \in 1..Len(calls) : calls[i] # "get_best_orientation"
               /\ resolved = orientation
               /\ Len(built) = 1
               /\ built[1].captures = captures
               /\ LET lo == DPI * Min(paper_format[1], paper_format[2])
                      hi == DPI * Max(paper_format[1], paper_format[2])
                  IN  <<built[1].width, built[1].height>> =
                          (IF orientation = LANDSCAPE THEN <<hi, lo>> ELSE <<lo, hi>>)
        /\ orientation = AUTO =>
               /\ pc = "raised" <=> ~ValidCount
               /\ pc = "raised" => (built = <<>> /\ error \in {"IndexError", "ValueError"})
               /\ pc = "returned" => calls[1] = "get_best_orientation"

\* five captures, explicit PORTRAIT: a picture maker is constructed all the same
C10_Witness ==
    /\ op = "get_picture_maker" /\ pc = "returned"
    /\ orientation = PORTRAIT /\ Len(captures) = 5 /\ captures[1] = <<2, 1>>
    /\ Len(built) = 1 /\ built[1].captures = captures
    /\ built[1].width <= built[1].height

====
